---------------------------- MODULE Spec2Model ----------------------------
(***************************************************************************)
(* A model of cptac/utils/pathway_utils.py: the local lookups over the two *)
(* bundled tables (BioPlex interaction list, WikiPathways membership       *)
(* matrix), the STRING / BioGrid interaction fetchers and the Reactome     *)
(* clients.  Every public function is one action; what the function reads *)
(* from the network is an input of the action, what it reads from disk is  *)
(* state.  Python values that may be None are records [isNone, val].       *)
(***************************************************************************)
EXTENDS Integers, Sequences, FiniteSets, TLC

VARIABLES
    bioplexFile,    \* rows <<SymbolA, SymbolB>> of BioPlex_interactionList_v4a.tsv
    wikiFile,       \* WikiPathwaysDataframe.tsv: [index, columns, values]
    bioplexCall,    \* last call of get_interacting_proteins_bioplex
    wikiCall,       \* last call of get_interacting_proteins_wikipathways
    pathwaysCall,   \* last call of get_protein_pathways
    listCall,       \* last call of list_pathways
    membersCall,    \* last call of get_proteins_in_pathway
    fetchCall,      \* last call of a STRING / BioGrid fetcher
    reactomeCall,   \* last call of a Reactome client
    df_index_name   \* df.index.name of the caller's dataframe

vars == <<bioplexFile, wikiFile, bioplexCall, wikiCall, pathwaysCall, listCall,
          membersCall, fetchCall, reactomeCall, df_index_name>>

(***************************************************************************)
(* Bounds of the model.                                                    *)
(***************************************************************************)
MaxRows == 3

MaxEntries == 2

MaxIds == 2

MaxCols == 2

Proteins == {"P1", "P2", "P3"}

\* The symbols of the interaction table: four, so that a chain of three edges fits
Symbols == {"P1", "P2", "P3", "P4"}

Pathways == {"L1", "L2"}

(***************************************************************************)
(* Python values.                                                          *)
(***************************************************************************)
PyNone == [isNone |-> TRUE, val |-> <<>>]

PyList(l) == [isNone |-> FALSE, val |-> l]

NoCall == [fn |-> "none"]

Range(s) == {s[i] : i \in 1..Len(s)}

NoDuplicates(s) == \A i, j \in 1..Len(s) : s[i] = s[j] => i = j

SeqsUpTo(S, n) == UNION {[1..k -> S] : k \in 0..n}

RECURSIVE SetToSeq(_)
\* list(set(...)): the elements of a set in some order, each once
SetToSeq(S) ==
    IF S = {} THEN <<>>
    ELSE LET x == CHOOSE y \in S : TRUE IN <<x>> \o SetToSeq(S \ {x})

\* "if x not in l: l.append(x)"
AppendIfAbsent(l, x) == IF x \in Range(l) THEN l ELSE Append(l, x)

RECURSIVE AppendAllIfAbsent(_, _)
\* "for x in xs: if x not in l: l.append(x)"
AppendAllIfAbsent(l, xs) ==
    IF xs = <<>> THEN l
    ELSE AppendAllIfAbsent(AppendIfAbsent(l, Head(xs)), Tail(xs))

RECURSIVE MaskSelect(_, _)
\* pandas boolean-mask selection: the labels whose mask entry is True
MaskSelect(labels, mask) ==
    IF labels = <<>> THEN <<>>
    ELSE (IF Head(mask) THEN <<Head(labels)>> ELSE <<>>)
         \o MaskSelect(Tail(labels), Tail(mask))

(***************************************************************************)
(* get_interacting_proteins_bioplex                                        *)
(***************************************************************************)
\* list(A_df['SymbolB']): partners of the rows whose SymbolA is the protein
A_interactions(file, protein) ==
    LET F[i \in 0..Len(file)] ==
            IF i = 0 THEN <<>>
            ELSE IF file[i][1] = protein THEN Append(F[i-1], file[i][2]) ELSE F[i-1]
    IN F[Len(file)]

B_interactions_OnlyA(file, protein) == <<>>

\* list(B_df['SymbolA']): partners of the rows whose SymbolB is the protein
B_interactions(file, protein) ==
    LET F[i \in 0..Len(file)] ==
            IF i = 0 THEN <<>>
            ELSE IF file[i][2] = protein THEN Append(F[i-1], file[i][1]) ELSE F[i-1]
    IN F[Len(file)]

\* all_interactions = list(set(A_interactions + B_interactions))
all_interactions(file, protein) ==
    SetToSeq(Range(A_interactions(file, protein) \o B_interactions(file, protein)))

ReturnListOrNone_AlwaysList(l) == [exc |-> "", ret |-> PyList(l)]

\* "if len(all_interactions) > 0: return all_interactions else: return None"
ReturnListOrNone(l) ==
    [exc |-> "", ret |-> IF Len(l) > 0 THEN PyList(l) ELSE PyNone]

RECURSIVE get_interacting_proteins_bioplex(_, _, _)
\* The whole function; exc = "TypeError" when "for si in secondary" meets None
get_interacting_proteins_bioplex(file, protein, secondary_interactions) ==
    LET primary == all_interactions(file, protein)
        sec(i) == get_interacting_proteins_bioplex(file, primary[i], FALSE)
        failed == \E i \in 1..Len(primary) : sec(i).ret.isNone
        SIL[i \in 0..Len(primary)] ==
            IF i = 0 THEN <<>> ELSE SIL[i-1] \o sec(i).ret.val
    IN  IF ~secondary_interactions THEN ReturnListOrNone(primary)
        ELSE IF failed THEN [exc |-> "TypeError", ret |-> PyNone]
        ELSE ReturnListOrNone(AppendAllIfAbsent(primary, SIL[Len(primary)]))

(***************************************************************************)
(* The WikiPathways lookups                                                *)
(***************************************************************************)
IndexOf(s, x) == CHOOSE i \in 1..Len(s) : s[i] = x

\* row.values.tolist() of df.loc[proteinName]
RowOf(df, proteinName) == df.values[IndexOf(df.index, proteinName)]

\* col = df[pathway]
ColOf(df, pathway) ==
    [i \in 1..Len(df.index) |-> df.values[i][IndexOf(df.columns, pathway)]]

get_protein_pathways(df, protein) ==
    IF protein \in Range(df.index)
    THEN MaskSelect(df.columns, RowOf(df, protein))
    ELSE <<>>

list_pathways(df) == df.columns

get_proteins_in_pathway_AllRows(df, pathway) ==
    IF pathway \in Range(df.columns) THEN df.index ELSE <<>>

get_proteins_in_pathway(df, pathway) ==
    IF pathway \in Range(df.columns)
    THEN MaskSelect(df.index, ColOf(df, pathway))
    ELSE <<>>

has_true_AnyColumn(df, mask, i) ==
    \E j \in 1..Len(df.columns) : df.values[i][j] = TRUE

\* has_true over the row of filtered_df (the columns the protein's row selects)
has_true(df, mask, i) ==
    \E j \in 1..Len(df.columns) : mask[j] /\ df.values[i][j] = TRUE

get_interacting_proteins_wikipathways(df, protein) ==
    IF protein \in Range(df.index)
    THEN LET row == RowOf(df, protein)
         IN MaskSelect(df.index, [i \in 1..Len(df.index) |-> has_true(df, row, i)])
    ELSE <<>>

(***************************************************************************)
(* The files on disk                                                       *)
(***************************************************************************)
\* every table of up to MaxRows rows; a row may repeat and may pair a symbol with itself
BioplexFiles == SeqsUpTo(Symbols \X Symbols, MaxRows)

\* every matrix over some of the proteins and pathways: row labels are unique
\* (read_csv makes the column labels unique), the cells are booleans
WikiFiles ==
    UNION { UNION { { [index |-> SetToSeq(R), columns |-> SetToSeq(C), values |-> v] :
                        v \in [1..Cardinality(R) -> [1..Cardinality(C) -> BOOLEAN]] } :
                    C \in SUBSET Pathways } :
            R \in SUBSET Proteins }

EmptyWikiFile == [index |-> <<>>, columns |-> <<>>, values |-> <<>>]

read_bioplex_Cached(file) == <<>>

\* bioplex_interactions = pd.read_csv(file_path, sep='\t'): read at every call
read_bioplex(file) == file

\* df = pd.read_csv(file_path, sep="\t", index_col=False); df.set_index("Unnamed: 0")
read_wiki(file) == file

(***************************************************************************)
(* Actions: the local lookups                                              *)
(***************************************************************************)
CallBioplex ==
    /\ \E protein \in Symbols, secondary_interactions \in BOOLEAN :
          bioplexCall' =
              [fn |-> "get_interacting_proteins_bioplex",
               protein |-> protein,
               secondary_interactions |-> secondary_interactions,
               out |-> get_interacting_proteins_bioplex(read_bioplex(bioplexFile), protein,
                                                        secondary_interactions)]
    /\ UNCHANGED <<bioplexFile, wikiFile, wikiCall, pathwaysCall, listCall,
                   membersCall, fetchCall, reactomeCall, df_index_name>>

CallWikipathways ==
    /\ \E protein \in Proteins :
          wikiCall' = [fn |-> "get_interacting_proteins_wikipathways",
                       protein |-> protein,
                       ret |-> get_interacting_proteins_wikipathways(read_wiki(wikiFile), protein)]
    /\ UNCHANGED <<bioplexFile, wikiFile, bioplexCall, pathwaysCall, listCall,
                   membersCall, fetchCall, reactomeCall, df_index_name>>

CallProteinPathways ==
    /\ \E protein \in Proteins :
          pathwaysCall' = [fn |-> "get_protein_pathways",
                           protein |-> protein,
                           ret |-> get_protein_pathways(read_wiki(wikiFile), protein)]
    /\ UNCHANGED <<bioplexFile, wikiFile, bioplexCall, wikiCall, listCall,
                   membersCall, fetchCall, reactomeCall, df_index_name>>

CallListPathways ==
    /\ listCall' = [fn |-> "list_pathways", ret |-> list_pathways(read_wiki(wikiFile))]
    /\ UNCHANGED <<bioplexFile, wikiFile, bioplexCall, wikiCall, pathwaysCall,
                   membersCall, fetchCall, reactomeCall, df_index_name>>

CallProteinsInPathway ==
    /\ \E pathway \in Pathways :
          membersCall' = [fn |-> "get_proteins_in_pathway",
                          pathway |-> pathway,
                          ret |-> get_proteins_in_pathway(read_wiki(wikiFile), pathway)]
    /\ UNCHANGED <<bioplexFile, wikiFile, bioplexCall, wikiCall, pathwaysCall,
                   listCall, fetchCall, reactomeCall, df_index_name>>

NoCalls ==
    /\ bioplexCall = NoCall
    /\ wikiCall = NoCall
    /\ pathwaysCall = NoCall
    /\ listCall = NoCall
    /\ membersCall = NoCall
    /\ fetchCall = NoCall
    /\ reactomeCall = NoCall

InitBioplex ==
    /\ bioplexFile \in BioplexFiles
    /\ wikiFile = EmptyWikiFile
    /\ df_index_name = PyNone
    /\ NoCalls

NextBioplex == CallBioplex

SpecBioplex == InitBioplex /\ [][NextBioplex]_vars

InitWiki ==
    /\ bioplexFile = <<>>
    /\ wikiFile \in WikiFiles
    /\ df_index_name = PyNone
    /\ NoCalls

NextWiki ==
    \/ CallWikipathways
    \/ CallProteinPathways
    \/ CallListPathways
    \/ CallProteinsInPathway

SpecWiki == InitWiki /\ [][NextWiki]_vars

(***************************************************************************)
(* The local lookups called one after the other while the files on disk    *)
(* are replaced between calls.                                             *)
(***************************************************************************)
LocalBioplexFiles ==
    { <<>>,
      << <<"P1", "P1">> >>,
      << <<"P1", "P2">> >>,
      << <<"P1", "P2">>, <<"P2", "P3">> >>,
      << <<"P2", "P1">>, <<"P3", "P4">>, <<"P1", "P2">> >> }

LocalWikiFiles ==
    { EmptyWikiFile,
      [index |-> <<"P2">>, columns |-> <<"L1", "L2">>, values |-> << <<FALSE, TRUE>> >>],
      [index |-> <<"P1", "P2">>, columns |-> <<"L1", "L2">>,
       values |-> << <<TRUE, FALSE>>, <<TRUE, TRUE>> >>],
      [index |-> <<"P1", "P2", "P3">>, columns |-> <<"L1">>,
       values |-> << <<TRUE>>, <<FALSE>>, <<TRUE>> >>] }

\* the caller holds no result
LocalIdle ==
    /\ bioplexCall = NoCall
    /\ wikiCall = NoCall
    /\ pathwaysCall = NoCall
    /\ listCall = NoCall
    /\ membersCall = NoCall

LocalCallBioplex == LocalIdle /\ CallBioplex

LocalCallWikipathways == LocalIdle /\ CallWikipathways

LocalCallProteinPathways == LocalIdle /\ CallProteinPathways

LocalCallListPathways == LocalIdle /\ CallListPathways

LocalCallProteinsInPathway == LocalIdle /\ CallProteinsInPathway

\* the caller is done with the result of the call
DiscardLocal ==
    /\ ~LocalIdle
    /\ bioplexCall' = NoCall
    /\ wikiCall' = NoCall
    /\ pathwaysCall' = NoCall
    /\ listCall' = NoCall
    /\ membersCall' = NoCall
    /\ UNCHANGED <<bioplexFile, wikiFile, fetchCall, reactomeCall, df_index_name>>

\* BioPlex_interactionList_v4a.tsv is replaced on disk
ChangeBioplexFile ==
    /\ \E file \in LocalBioplexFiles : file # bioplexFile /\ bioplexFile' = file
    /\ UNCHANGED <<wikiFile, bioplexCall, wikiCall, pathwaysCall, listCall,
                   membersCall, fetchCall, reactomeCall, df_index_name>>

\* WikiPathwaysDataframe.tsv is replaced on disk
ChangeWikiFile ==
    /\ \E file \in LocalWikiFiles : file # wikiFile /\ wikiFile' = file
    /\ UNCHANGED <<bioplexFile, bioplexCall, wikiCall, pathwaysCall, listCall,
                   membersCall, fetchCall, reactomeCall, df_index_name>>

InitLocal ==
    /\ bioplexFile \in LocalBioplexFiles
    /\ wikiFile \in LocalWikiFiles
    /\ df_index_name = PyNone
    /\ NoCalls

NextLocal ==
    \/ LocalCallBioplex
    \/ LocalCallWikipathways
    \/ LocalCallProteinPathways
    \/ LocalCallListPathways
    \/ LocalCallProteinsInPathway
    \/ DiscardLocal
    \/ ChangeBioplexFile
    \/ ChangeWikiFile

SpecLocal == InitLocal /\ [][NextLocal]_vars

(***************************************************************************)
(* Properties of the local lookups                                         *)
(***************************************************************************)
\* the protein appears in SymbolA or SymbolB of some row
InTable(file, p) == \E i \in 1..Len(file) : file[i][1] = p \/ file[i][2] = p

\* the other ends of the rows the protein appears in
Partners(file, p) ==
    {q \in Symbols : \E i \in 1..Len(file) : file[i] = <<p, q>> \/ file[i] = <<q, p>>}

TwoHops(file, p) ==
    Partners(file, p) \cup UNION {Partners(file, q) : q \in Partners(file, p)}

BioplexCalled == bioplexCall.fn = "get_interacting_proteins_bioplex"

\* C5: for a protein in no row of the interaction table the bioplex lookup
\* returns None (never an empty list), with and without secondary
\* interactions; for a protein in at least one row it returns a non-empty list.
C5_NoneIffAbsent ==
    BioplexCalled =>
        /\ bioplexCall.out.exc = ""
        /\ ~InTable(bioplexFile, bioplexCall.protein) => bioplexCall.out.ret.isNone
        /\ InTable(bioplexFile, bioplexCall.protein) =>
              /\ ~bioplexCall.out.ret.isNone
              /\ Len(bioplexCall.out.ret.val) > 0

C5_Witness ==
    /\ BioplexCalled
    /\ bioplexCall.secondary_interactions
    /\ bioplexFile # <<>>
    /\ ~InTable(bioplexFile, bioplexCall.protein)
    /\ bioplexCall.out.ret.isNone

\* C9: with secondary interactions the bioplex lookup returns the direct
\* partners together with the direct partners of each of them (two hops, no
\* further), without them exactly the direct partners; the list has no
\* duplicate entries (None stands for the empty result).
C9_TwoHopUnion ==
    BioplexCalled =>
        LET expected == IF bioplexCall.secondary_interactions
                        THEN TwoHops(bioplexFile, bioplexCall.protein)
                        ELSE Partners(bioplexFile, bioplexCall.protein)
        IN  /\ bioplexCall.out.exc = ""
            /\ IF expected = {} THEN bioplexCall.out.ret.isNone
               ELSE /\ ~bioplexCall.out.ret.isNone
                    /\ Range(bioplexCall.out.ret.val) = expected
                    /\ NoDuplicates(bioplexCall.out.ret.val)

\* a chain P1 - P2 - P3 - P4 queried at its end: P3 is two hops away, P4 three
C9_Witness ==
    /\ BioplexCalled
    /\ bioplexCall.secondary_interactions
    /\ ~bioplexCall.out.ret.isNone
    /\ \E q \in Range(bioplexCall.out.ret.val) :
          q \notin Partners(bioplexFile, bioplexCall.protein) \cup {bioplexCall.protein}
    /\ \E r \in Symbols, q \in Range(bioplexCall.out.ret.val) :
          /\ r \in Partners(bioplexFile, q)
          /\ r \notin Range(bioplexCall.out.ret.val)

\* the cell of the membership matrix at (protein, pathway), false off the matrix
Member(df, P, L) ==
    \E i \in 1..Len(df.index), j \in 1..Len(df.columns) :
        df.index[i] = P /\ df.columns[j] = L /\ df.values[i][j]

SharePathway(df, P, Q) == \E L \in Pathways : Member(df, P, L) /\ Member(df, Q, L)

\* C4: over one membership matrix, protein P is in get_proteins_in_pathway(L)
\* iff L is in get_protein_pathways(P); both are false when P is no row or L
\* no column.
C4_Consistent ==
    (pathwaysCall.fn # "none" /\ membersCall.fn # "none") =>
        /\ (pathwaysCall.protein \in Range(membersCall.ret))
              <=> (membersCall.pathway \in Range(pathwaysCall.ret))
        /\ (pathwaysCall.protein \notin Range(wikiFile.index)
              \/ membersCall.pathway \notin Range(wikiFile.columns))
              => /\ pathwaysCall.protein \notin Range(membersCall.ret)
                 /\ membersCall.pathway \notin Range(pathwaysCall.ret)

C4_Witness ==
    /\ pathwaysCall.fn # "none"
    /\ membersCall.fn # "none"
    /\ pathwaysCall.protein \in Range(membersCall.ret)
    /\ membersCall.pathway \in Range(pathwaysCall.ret)
    /\ Len(membersCall.ret) < Len(wikiFile.index)
    /\ Len(pathwaysCall.ret) < Len(wikiFile.columns)

\* C8 as stated: Q is in the result of get_interacting_proteins_wikipathways
\* iff Q differs from the queried protein and shares a pathway with it.
C8_OthersOnly ==
    wikiCall.fn # "none" =>
        \A Q \in Proteins :
            Q \in Range(wikiCall.ret)
                <=> (Q # wikiCall.protein /\ SharePathway(wikiFile, wikiCall.protein, Q))

\* C8 amended: Q is in the result of get_interacting_proteins_wikipathways
\* iff Q shares a pathway with the queried protein; the queried protein itself
\* is therefore in the result whenever it belongs to a pathway.
C8_SharingProteins ==
    wikiCall.fn # "none" =>
        \A Q \in Proteins :
            Q \in Range(wikiCall.ret) <=> SharePathway(wikiFile, wikiCall.protein, Q)

C8_Witness ==
    /\ wikiCall.fn # "none"
    /\ wikiCall.protein \in Range(wikiCall.ret)
    /\ \E Q \in Range(wikiCall.ret) : Q # wikiCall.protein
    /\ \E Q \in Range(wikiFile.index) : Q \notin Range(wikiCall.ret)

(***************************************************************************)
(* The STRING and BioGrid fetchers.  What http.request does is the input   *)
(* resp: it raises (raised # "none") or answers with a status and, on 200, *)
(* a JSON body of interaction entries <<A, B>>.  The 'number' parameter    *)
(* only goes into the request URL.                                         *)
(***************************************************************************)
HTTP_OK == 200

HttpResponses ==
    {[raised |-> r, status |-> 0, entries |-> <<>>] : r \in {"HTTPError", "Exception"}}
    \cup {[raised |-> "none", status |-> st, entries |-> <<>>] : st \in {404, 500}}
    \cup {[raised |-> "none", status |-> HTTP_OK, entries |-> e] :
            e \in SeqsUpTo(Proteins \X Proteins, MaxEntries)}

Returned(v) == [exc |-> "", ret |-> v]

Raised(e) == [exc |-> e, ret |-> PyNone]

\* whether the caught urllib3.HTTPError has a read() method: it has none
err_has_read == FALSE

\* "except urllib3.HTTPError as err: error_message = err.read(); ...; sys.exit()"
string_except_HTTPError ==
    IF err_has_read THEN Raised("SystemExit") ELSE Raised("AttributeError")

\* the loop over the entries of the STRING response: both ends, each once
string_entries(entries) ==
    LET F[i \in 0..Len(entries)] ==
            IF i = 0 THEN <<>>
            ELSE AppendIfAbsent(AppendIfAbsent(F[i-1], entries[i][1]), entries[i][2])
    IN F[Len(entries)]

get_interacting_proteins_string(protein, resp) ==
    IF resp.raised = "HTTPError" THEN string_except_HTTPError
    ELSE IF resp.raised # "none" THEN Raised(resp.raised)
    ELSE IF resp.status = HTTP_OK
         THEN Returned(PyList(AppendIfAbsent(string_entries(resp.entries), protein)))
    ELSE Returned(PyNone)

\* the loop over the entries of the BioGrid response: OFFICIAL_SYMBOL_A, each once
biogrid_entries(entries) ==
    LET F[i \in 0..Len(entries)] ==
            IF i = 0 THEN <<>> ELSE AppendIfAbsent(F[i-1], entries[i][1])
    IN F[Len(entries)]

get_interacting_proteins_biogrid(protein, resp) ==
    IF resp.raised # "none" THEN Returned(PyNone)
    ELSE IF resp.status = HTTP_OK THEN Returned(PyList(biogrid_entries(resp.entries)))
    ELSE Returned(PyNone)

\* "for prot in l: if prot not in interacting_proteins: append"; None is not iterable
union_into(acc, l) ==
    IF acc.exc # "" THEN acc
    ELSE IF l.isNone THEN Raised("TypeError")
    ELSE Returned(PyList(AppendAllIfAbsent(acc.ret.val, l.val)))

\* string_out, biogrid_out: what the two fetchers did; biogrid is not called
\* when the STRING fetcher raised
get_interacting_proteins(string_out, biogrid_out) ==
    IF string_out.exc # "" THEN string_out
    ELSE IF biogrid_out.exc # "" THEN biogrid_out
    ELSE IF string_out.ret.isNone /\ biogrid_out.ret.isNone THEN Returned(PyNone)
    ELSE union_into(union_into(Returned(PyList(<<>>)), string_out.ret), biogrid_out.ret)

CallString ==
    /\ fetchCall = NoCall
    /\ \E protein \in Proteins, resp \in HttpResponses :
          fetchCall' = [fn |-> "get_interacting_proteins_string",
                        protein |-> protein,
                        resp |-> resp,
                        out |-> get_interacting_proteins_string(protein, resp)]
    /\ UNCHANGED <<bioplexFile, wikiFile, bioplexCall, wikiCall, pathwaysCall,
                   listCall, membersCall, reactomeCall, df_index_name>>

CallBiogrid ==
    /\ fetchCall = NoCall
    /\ \E protein \in Proteins, resp \in HttpResponses :
          fetchCall' = [fn |-> "get_interacting_proteins_biogrid",
                        protein |-> protein,
                        resp |-> resp,
                        out |-> get_interacting_proteins_biogrid(protein, resp)]
    /\ UNCHANGED <<bioplexFile, wikiFile, bioplexCall, wikiCall, pathwaysCall,
                   listCall, membersCall, reactomeCall, df_index_name>>

CallInteracting ==
    /\ fetchCall = NoCall
    /\ \E protein \in Proteins, string_resp \in HttpResponses, biogrid_resp \in HttpResponses :
          LET string_out == get_interacting_proteins_string(protein, string_resp)
              biogrid_out == get_interacting_proteins_biogrid(protein, biogrid_resp)
          IN fetchCall' = [fn |-> "get_interacting_proteins",
                           protein |-> protein,
                           string_out |-> string_out,
                           biogrid_out |-> biogrid_out,
                           out |-> get_interacting_proteins(string_out, biogrid_out)]
    /\ UNCHANGED <<bioplexFile, wikiFile, bioplexCall, wikiCall, pathwaysCall,
                   listCall, membersCall, reactomeCall, df_index_name>>

\* the caller is done with the result of the call
DiscardFetch ==
    /\ fetchCall # NoCall
    /\ fetchCall' = NoCall
    /\ UNCHANGED <<bioplexFile, wikiFile, bioplexCall, wikiCall, pathwaysCall,
                   listCall, membersCall, reactomeCall, df_index_name>>

InitFetch ==
    /\ bioplexFile = <<>>
    /\ wikiFile = EmptyWikiFile
    /\ df_index_name = PyNone
    /\ NoCalls

NextFetch ==
    \/ CallString
    \/ CallBiogrid
    \/ CallInteracting
    \/ DiscardFetch

SpecFetch == InitFetch /\ [][NextFetch]_vars

(***************************************************************************)
(* Properties of the fetchers                                              *)
(***************************************************************************)
FetcherCalled ==
    fetchCall.fn \in {"get_interacting_proteins_string", "get_interacting_proteins_biogrid"}

\* C1: get_interacting_proteins returns None only if both fetchers returned
\* None; whenever at least one fetcher returned a list (also when exactly one
\* returned None) it returns, without raising, a duplicate-free list holding
\* every element of each returned list.
C1_UnionUnlessBothFail ==
    (/\ fetchCall.fn = "get_interacting_proteins"
     /\ fetchCall.string_out.exc = ""
     /\ fetchCall.biogrid_out.exc = "") =>
        /\ fetchCall.out.exc = ""
        /\ fetchCall.out.ret.isNone
              <=> (fetchCall.string_out.ret.isNone /\ fetchCall.biogrid_out.ret.isNone)
        /\ ~fetchCall.out.ret.isNone =>
              /\ NoDuplicates(fetchCall.out.ret.val)
              /\ Range(fetchCall.out.ret.val)
                    = Range(fetchCall.string_out.ret.val)
                        \cup Range(fetchCall.biogrid_out.ret.val)

\* C6: each fetcher returns None, and returns to its caller, whenever the
\* request raises or the response status is not 200.
C6_NoneOnFailure ==
    (FetcherCalled /\ (fetchCall.resp.raised # "none" \/ fetchCall.resp.status # HTTP_OK)) =>
        /\ fetchCall.out.exc = ""
        /\ fetchCall.out.ret.isNone

\* both ends of every returned interaction, the queried protein left out
PartnersNamed(entries, protein) ==
    ({entries[i][1] : i \in 1..Len(entries)} \cup {entries[i][2] : i \in 1..Len(entries)})
        \ {protein}

\* C10: on a 200 response each fetcher returns a duplicate-free list of
\* exactly the partners named in the response entries: both ends of each
\* interaction, other than the queried protein.
C10_PartnersExactly ==
    (FetcherCalled /\ fetchCall.resp.raised = "none" /\ fetchCall.resp.status = HTTP_OK) =>
        /\ fetchCall.out.exc = ""
        /\ ~fetchCall.out.ret.isNone
        /\ NoDuplicates(fetchCall.out.ret.val)
        /\ Range(fetchCall.out.ret.val)
              = PartnersNamed(fetchCall.resp.entries, fetchCall.protein)

(***************************************************************************)
(* reactome_pathway_overlay.  Strings the function takes apart are         *)
(* sequences of tokens: "~", "/", "." and "#" are single characters, the   *)
(* other tokens are runs of characters without any of these.               *)
(***************************************************************************)
PyStr(t) == [isNone |-> FALSE, val |-> t]

NoneInt == [isNone |-> TRUE, val |-> 0]

PyInt(k) == [isNone |-> FALSE, val |-> k]

QualityLow == 1

QualityHigh == 11

ValidImageFormats == {"png", "gif", "svg", "jpg", "jpeg", "pptx"}

ValidDiagramColors == {"Modern", "Standard"}

ValidOverlayColors == {"Standard", "Strosobar", "Copper Plus"}

\* export_path.split('.')[-1]
Extension(export_path) ==
    LET dots == {i \in 1..Len(export_path) : export_path[i] = "."}
        last == IF dots = {} THEN 0 ELSE CHOOSE i \in dots : \A j \in dots : j <= i
    IN SubSeq(export_path, last + 1, Len(export_path))

ExtensionMismatch_Never(image_format, export_path) == FALSE

\* "image_format != export_path.split('.')[-1]"
ExtensionMismatch(image_format, export_path) ==
    Extension(export_path) # <<image_format>>

\* "export_path[:2] == '~/'"
HomePrefix(export_path) ==
    Len(export_path) >= 2 /\ export_path[1] = "~" /\ export_path[2] = "/"

\* the parameter checks in their order; the name of the first that fails, or ""
FirstFailedCheck(ncols, export_path, image_format, display_col_idx, diagram_colors, overlay_colors, quality) ==
    IF image_format \notin ValidImageFormats THEN "image_format"
    ELSE IF ~display_col_idx.isNone /\ display_col_idx.val \notin 0..(ncols - 1)
         THEN "display_col_idx"
    ELSE IF diagram_colors \notin ValidDiagramColors THEN "diagram_colors"
    ELSE IF overlay_colors \notin ValidOverlayColors THEN "overlay_colors"
    ELSE IF quality \notin QualityLow..(QualityHigh - 1) THEN "quality"
    ELSE IF ExtensionMismatch(image_format, export_path) THEN "export_path extension"
    ELSE IF HomePrefix(export_path) THEN "export_path home"
    ELSE ""

\* "if df.index.name is None ... elif not df.index.name.startswith('#') ..."
rename_index_AlwaysPrefix(name) ==
    IF name.isNone THEN PyStr(<<"#", "identifier">>) ELSE PyStr(<<"#">> \o name.val)

rename_index(name) ==
    IF name.isNone THEN PyStr(<<"#", "identifier">>)
    ELSE IF Len(name.val) >= 1 /\ name.val[1] = "#" THEN name
    ELSE PyStr(<<"#">> \o name.val)

PostFailed(status_code) == status_code # HTTP_OK

GetFailed_Never(status_code) == FALSE

GetFailed(status_code) == status_code # HTTP_OK

\* "if isinstance(df, pd.Series): if df.name is None: df.name = 'data'": the
\* name the caller's Series has afterwards, given whether it had none
series_name(unnamed_series) == IF unnamed_series THEN "data" ELSE "kept"

\* The function after the parameter checks: the index is renamed, the data
\* posted, the browser opened, the diagram fetched and saved.  effects lists,
\* in order, the requests sent (POST, GET), the browser opened, the file written.
overlay_after_checks(index_name, open_browser, export_path, post_status, get_status) ==
    LET renamed == rename_index(index_name)
        browsed == IF open_browser THEN <<"POST", "browser">> ELSE <<"POST">>
    IN  IF PostFailed(post_status)
        THEN [exc |-> "HttpResponseError", failed |-> "", ret |-> "",
              effects |-> <<"POST">>, index_name |-> renamed]
        ELSE IF export_path.isNone
        THEN [exc |-> "", failed |-> "", ret |-> "viewer_url",
              effects |-> browsed, index_name |-> renamed]
        ELSE IF GetFailed(get_status)
        THEN [exc |-> "HttpResponseError", failed |-> "", ret |-> "",
              effects |-> Append(browsed, "GET"), index_name |-> renamed]
        ELSE [exc |-> "", failed |-> "", ret |-> "export_path",
              effects |-> browsed \o <<"GET", "write">>, index_name |-> renamed]

reactome_pathway_overlay_RenameFirst(index_name, ncols, open_browser, export_path, image_format, display_col_idx, diagram_colors, overlay_colors, quality, post_status, get_status) ==
    LET failed == IF export_path.isNone THEN ""
                  ELSE FirstFailedCheck(ncols, export_path.val, image_format,
                                        display_col_idx, diagram_colors,
                                        overlay_colors, quality)
    IN  IF failed # ""
        THEN [exc |-> "InvalidParameterError", failed |-> failed, ret |-> "",
              effects |-> <<>>, index_name |-> rename_index(index_name)]
        ELSE overlay_after_checks(index_name, open_browser, export_path,
                                  post_status, get_status)

\* The function from the parameter checks on: a failed check raises before
\* anything else is done
reactome_pathway_overlay(index_name, ncols, open_browser, export_path, image_format, display_col_idx, diagram_colors, overlay_colors, quality, post_status, get_status) ==
    LET failed == IF export_path.isNone THEN ""
                  ELSE FirstFailedCheck(ncols, export_path.val, image_format,
                                        display_col_idx, diagram_colors,
                                        overlay_colors, quality)
    IN  IF failed # ""
        THEN [exc |-> "InvalidParameterError", failed |-> failed, ret |-> "",
              effects |-> <<>>, index_name |-> index_name]
        ELSE overlay_after_checks(index_name, open_browser, export_path,
                                  post_status, get_status)

ExportPaths ==
    { <<"a", ".", "png">>, <<"a", ".", "gif">>, <<"~", "/", "a", ".", "png">>,
      <<"a", ".", "png", ".", "gif">>, <<"png">>, <<"a", "png">>, <<"a", ".">> }

IndexNames == {PyNone, PyStr(<<>>), PyStr(<<"id">>), PyStr(<<"#", "id">>)}

CallOverlay ==
    /\ reactomeCall = NoCall
    /\ \E unnamed_series \in BOOLEAN, ncols \in 1..MaxCols, open_browser \in BOOLEAN,
          export_path \in {PyNone} \cup {PyStr(t) : t \in ExportPaths},
          image_format \in {"png", "gif", "bmp"},
          display_col_idx \in {NoneInt} \cup {PyInt(k) : k \in (-1)..MaxCols},
          diagram_colors \in {"Modern", "Neon"},
          overlay_colors \in {"Standard", "Neon"},
          quality \in {QualityLow - 1, QualityLow, QualityHigh},
          post_status \in {HTTP_OK, 500}, get_status \in {HTTP_OK, 404} :
          LET out == reactome_pathway_overlay(df_index_name, ncols, open_browser,
                         export_path, image_format, display_col_idx, diagram_colors,
                         overlay_colors, quality, post_status, get_status)
          IN /\ reactomeCall' =
                    [fn |-> "reactome_pathway_overlay",
                     series_name |-> series_name(unnamed_series),
                     index_name |-> df_index_name,
                     ncols |-> ncols,
                     open_browser |-> open_browser,
                     export_path |-> export_path,
                     image_format |-> image_format,
                     display_col_idx |-> display_col_idx,
                     diagram_colors |-> diagram_colors,
                     overlay_colors |-> overlay_colors,
                     quality |-> quality,
                     post_status |-> post_status,
                     get_status |-> get_status,
                     out |-> out]
             /\ df_index_name' = out.index_name
    /\ UNCHANGED <<bioplexFile, wikiFile, bioplexCall, wikiCall, pathwaysCall,
                   listCall, membersCall, fetchCall>>

(***************************************************************************)
(* search_reactome_pathways_with_proteins.  resps[i] is the answer to the  *)
(* request for ids[i]: kind tells what resp.json() of a 404 body gives.    *)
(***************************************************************************)
ReactomeIds == {"A", "B"}

ReactomePathways ==
    {[displayName |-> "n1", stId |-> 1], [displayName |-> "n2", stId |-> 2]}

SearchResponses ==
    {[status |-> 404, kind |-> k, pathways |-> <<>>] :
        k \in {"messages", "no_messages", "not_json", "json_list"}}
    \cup {[status |-> 500, kind |-> "", pathways |-> <<>>]}
    \cup {[status |-> HTTP_OK, kind |-> "json_list", pathways |-> b] :
            b \in SeqsUpTo(ReactomePathways, MaxEntries)}

handle_404_AlwaysWarn(resp, quiet) ==
    IF resp.kind = "messages" THEN [exc |-> "", warn |-> TRUE]
    ELSE IF resp.kind = "json_list" THEN [exc |-> "TypeError", warn |-> FALSE]
    ELSE [exc |-> "HttpResponseError", warn |-> FALSE]

\* the 404 branch: msg = resp.json()["messages"], warn unless quiet, continue
handle_404(resp, quiet) ==
    IF resp.kind = "messages" THEN [exc |-> "", warn |-> ~quiet]
    ELSE IF resp.kind = "json_list" THEN [exc |-> "TypeError", warn |-> FALSE]
    ELSE [exc |-> "HttpResponseError", warn |-> FALSE]

\* the rows of one identifier, sorted by pathway_id
pathway_df(id, pathways) ==
    SortSeq([k \in 1..Len(pathways) |->
                [id |-> id, pathway |-> pathways[k].displayName,
                 pathway_id |-> pathways[k].stId]],
            LAMBDA a, b : a.pathway_id < b.pathway_id)

RECURSIVE pathways_loop(_, _, _, _, _)
\* "for id in ids": acc is what the loop has built before identifier i
pathways_loop(ids, resps, quiet, i, acc) ==
    IF i > Len(ids) THEN acc
    ELSE LET sent == [acc EXCEPT !.requests = Append(@, ids[i])]
             h == handle_404(resps[i], quiet)
         IN IF resps[i].status = 404
            THEN IF h.exc # "" THEN [sent EXCEPT !.exc = h.exc]
                 ELSE pathways_loop(ids, resps, quiet, i + 1,
                        [sent EXCEPT !.warnings = IF h.warn THEN Append(@, ids[i]) ELSE @])
            ELSE IF resps[i].status # HTTP_OK
            THEN [sent EXCEPT !.exc = "HttpResponseError"]
            ELSE pathways_loop(ids, resps, quiet, i + 1,
                   [sent EXCEPT !.table = @ \o pathway_df(ids[i], resps[i].pathways)])

search_reactome_pathways_with_proteins(ids, resps, quiet) ==
    LET end == pathways_loop(ids, resps, quiet, 1,
                   [exc |-> "", table |-> <<>>, warnings |-> <<>>, requests |-> <<>>])
    IN IF end.exc # "" THEN [end EXCEPT !.table = <<>>] ELSE end

CallSearchPathways ==
    /\ reactomeCall = NoCall
    /\ \E n \in 0..MaxIds, quiet \in BOOLEAN :
          \E ids \in [1..n -> ReactomeIds], resps \in [1..n -> SearchResponses] :
              reactomeCall' =
                  [fn |-> "search_reactome_pathways_with_proteins",
                   ids |-> ids,
                   resps |-> resps,
                   quiet |-> quiet,
                   out |-> search_reactome_pathways_with_proteins(ids, resps, quiet)]
    /\ UNCHANGED <<bioplexFile, wikiFile, bioplexCall, wikiCall, pathwaysCall,
                   listCall, membersCall, fetchCall, df_index_name>>

(***************************************************************************)
(* search_reactome_proteins_in_pathways.  A 200 body is empty, an empty    *)
(* JSON array, or JSON whose quoted strings are given by strings: db is    *)
(* what the string starts with, words its pieces between single spaces.    *)
(***************************************************************************)
ParticipantStrings ==
    { [db |-> "UniProt", words |-> <<"UniProt:P1", "G1">>],
      [db |-> "UniProt", words |-> <<"UniProt:P2", "G2">>],
      [db |-> "ChEBI", words |-> <<"ChEBI:15377", "water">>] }

\* the order of sort_values(by="member") on the member names
MemberRank(member) == IF member = "G1" THEN 1 ELSE 2

ParticipantResponses ==
    {[status |-> st, kind |-> "", strings |-> <<>>] : st \in {404, 500}}
    \cup {[status |-> HTTP_OK, kind |-> k, strings |-> <<>>] :
            k \in {"empty_content", "empty_json"}}
    \cup {[status |-> HTTP_OK, kind |-> "json", strings |-> b] :
            b \in SeqsUpTo(ParticipantStrings, 2) \ {<<>>}}

\* "resp.status_code == 404 or (resp.status_code == requests.codes.ok and
\*  (len(resp.content.decode('utf-8')) == 0 or len(resp.json()) == 0))"
found_no_results(resp) ==
    \/ resp.status = 404
    \/ resp.status = HTTP_OK /\ resp.kind \in {"empty_content", "empty_json"}

participants_failed_Never(resp) == FALSE

\* "elif resp.status_code != requests.codes.ok"
participants_failed(resp) == resp.status # HTTP_OK

\* [member.split(" ")[1] for member in all_members if member.startswith("UniProt")]
member_proteins(strings) ==
    LET F[k \in 0..Len(strings)] ==
            IF k = 0 THEN <<>>
            ELSE IF strings[k].db = "UniProt" THEN Append(F[k-1], strings[k].words[2])
                 ELSE F[k-1]
    IN F[Len(strings)]

\* the rows of one pathway, sorted by member
members_df(pathway_id, strings) ==
    LET member == member_proteins(strings)
    IN SortSeq([k \in 1..Len(member) |-> [pathway_id |-> pathway_id, member |-> member[k]]],
               LAMBDA a, b : MemberRank(a.member) < MemberRank(b.member))

RECURSIVE participants_loop(_, _, _, _, _)
\* "for pathway_id in pathway_ids": acc is what the loop has built before i
participants_loop(pathway_ids, resps, quiet, i, acc) ==
    IF i > Len(pathway_ids) THEN acc
    ELSE LET sent == [acc EXCEPT !.requests = Append(@, pathway_ids[i])]
         IN IF found_no_results(resps[i])
            THEN participants_loop(pathway_ids, resps, quiet, i + 1,
                   [sent EXCEPT !.warnings = IF quiet THEN @ ELSE Append(@, pathway_ids[i])])
            ELSE IF participants_failed(resps[i])
            THEN [sent EXCEPT !.exc = "HttpResponseError"]
            ELSE participants_loop(pathway_ids, resps, quiet, i + 1,
                   [sent EXCEPT !.table = @ \o members_df(pathway_ids[i], resps[i].strings)])

\* drop_duplicates(keep="first")
drop_duplicates(table) == AppendAllIfAbsent(<<>>, table)

search_reactome_proteins_in_pathways(pathway_ids, resps, quiet) ==
    LET end == participants_loop(pathway_ids, resps, quiet, 1,
                   [exc |-> "", table |-> <<>>, warnings |-> <<>>, requests |-> <<>>])
    IN IF end.exc # "" THEN [end EXCEPT !.table = <<>>]
       ELSE [end EXCEPT !.table = drop_duplicates(@)]

CallSearchProteins ==
    /\ reactomeCall = NoCall
    /\ \E n \in 0..MaxIds, quiet \in BOOLEAN :
          \E pathway_ids \in [1..n -> ReactomeIds], resps \in [1..n -> ParticipantResponses] :
              reactomeCall' =
                  [fn |-> "search_reactome_proteins_in_pathways",
                   ids |-> pathway_ids,
                   resps |-> resps,
                   quiet |-> quiet,
                   out |-> search_reactome_proteins_in_pathways(pathway_ids, resps, quiet)]
    /\ UNCHANGED <<bioplexFile, wikiFile, bioplexCall, wikiCall, pathwaysCall,
                   listCall, membersCall, fetchCall, df_index_name>>

\* the caller is done with the result of the call
DiscardReactome ==
    /\ reactomeCall # NoCall
    /\ reactomeCall' = NoCall
    /\ UNCHANGED <<bioplexFile, wikiFile, bioplexCall, wikiCall, pathwaysCall,
                   listCall, membersCall, fetchCall, df_index_name>>

InitReactome ==
    /\ bioplexFile = <<>>
    /\ wikiFile = EmptyWikiFile
    /\ df_index_name \in IndexNames
    /\ NoCalls

NextReactome ==
    \/ CallOverlay
    \/ CallSearchPathways
    \/ CallSearchProteins
    \/ DiscardReactome

SpecReactome == InitReactome /\ [][NextReactome]_vars

(***************************************************************************)
(* Properties of the Reactome clients                                      *)
(***************************************************************************)
OverlayCalled == reactomeCall.fn = "reactome_pathway_overlay"

SearchCalled == reactomeCall.fn = "search_reactome_pathways_with_proteins"

\* the path is the format alone or ends in "." followed by the format
EndsWithFormat(path, image_format) ==
    \/ path = <<image_format>>
    \/ /\ Len(path) >= 2
       /\ path[Len(path)] = image_format
       /\ path[Len(path) - 1] = "."

\* C3: given an export path, reactome_pathway_overlay raises
\* InvalidParameterError whenever image_format differs from the text after
\* the last '.' of the path, whatever the other parameters are, and it does
\* so before any HTTP request is sent.
C3_ExtensionMismatchRaises ==
    (/\ OverlayCalled
     /\ ~reactomeCall.export_path.isNone
     /\ ~EndsWithFormat(reactomeCall.export_path.val, reactomeCall.image_format)) =>
        /\ reactomeCall.out.exc = "InvalidParameterError"
        /\ reactomeCall.out.effects = <<>>

C3_Witness ==
    /\ OverlayCalled
    /\ reactomeCall.out.exc = "InvalidParameterError"
    /\ reactomeCall.out.failed = "export_path extension"
    /\ reactomeCall.export_path.val = <<"a", ".", "png", ".", "gif">>
    /\ reactomeCall.image_format = "png"
    /\ reactomeCall.post_status = HTTP_OK
    /\ reactomeCall.out.effects = <<>>

Pos(s, x) == CHOOSE i \in 1..Len(s) : s[i] = x

\* C7: reactome_pathway_overlay raises HttpResponseError on a non-200 answer:
\* to the POST, with no browser opened and no GET sent; to the GET, with no
\* file written.  The file is written only after both answered 200.
C7_HttpErrorsRaise ==
    OverlayCalled =>
        LET e == reactomeCall.out.effects IN
        /\ ("POST" \in Range(e) /\ reactomeCall.post_status # HTTP_OK) =>
              /\ reactomeCall.out.exc = "HttpResponseError"
              /\ e = <<"POST">>
        /\ ("GET" \in Range(e) /\ reactomeCall.get_status # HTTP_OK) =>
              /\ reactomeCall.out.exc = "HttpResponseError"
              /\ "write" \notin Range(e)
        /\ "write" \in Range(e) =>
              /\ reactomeCall.post_status = HTTP_OK
              /\ reactomeCall.get_status = HTTP_OK
              /\ "GET" \in Range(e)
              /\ Pos(e, "POST") < Pos(e, "GET")
              /\ Pos(e, "GET") < Pos(e, "write")
        /\ reactomeCall.out.failed = "" => "POST" \in Range(e)

C7_Witness ==
    /\ OverlayCalled
    /\ reactomeCall.out.exc = "HttpResponseError"
    /\ reactomeCall.post_status = HTTP_OK
    /\ reactomeCall.get_status # HTTP_OK
    /\ reactomeCall.out.effects = <<"POST", "browser", "GET">>

\* the 404 answers the function takes as "not found"
NotFound(resp) == resp.status = 404 /\ resp.kind = "messages"

\* the id column the table must have: ids[i] once per pathway of a 200 answer
ExpectedIdColumn(ids, resps) ==
    LET F[i \in 0..Len(ids)] ==
            IF i = 0 THEN <<>>
            ELSE IF resps[i].status = HTTP_OK
                 THEN F[i-1] \o [k \in 1..Len(resps[i].pathways) |-> ids[i]]
                 ELSE F[i-1]
    IN F[Len(ids)]

IdColumn(table) == [k \in 1..Len(table) |-> table[k].id]

\* the identifiers answered 404, in input order
Ids404(ids, resps) ==
    LET F[i \in 0..Len(ids)] ==
            IF i = 0 THEN <<>>
            ELSE IF resps[i].status = 404 THEN Append(F[i-1], ids[i]) ELSE F[i-1]
    IN F[Len(ids)]

\* C2 as stated: whatever the 404 body and the quiet flag, an identifier
\* answered 404 is skipped, a warning is issued for it, no exception
\* propagates and the loop goes on with the remaining identifiers.
C2_Skip404Always ==
    (/\ SearchCalled
     /\ \A i \in 1..Len(reactomeCall.ids) : reactomeCall.resps[i].status \in {HTTP_OK, 404}) =>
        /\ reactomeCall.out.exc = ""
        /\ reactomeCall.out.requests = reactomeCall.ids
        /\ reactomeCall.out.warnings = Ids404(reactomeCall.ids, reactomeCall.resps)
        /\ IdColumn(reactomeCall.out.table)
              = ExpectedIdColumn(reactomeCall.ids, reactomeCall.resps)

\* C2 amended: an identifier answered 404 with a JSON body holding "messages"
\* is skipped, no exception propagates and the loop goes on; a warning is
\* issued for it exactly when quiet is false.  A 404 whose body is not JSON
\* or is a JSON object without "messages" raises HttpResponseError.
C2_Skip404WithMessages ==
    SearchCalled =>
        LET ids == reactomeCall.ids
            resps == reactomeCall.resps
            out == reactomeCall.out
            ok(i) == resps[i].status = HTTP_OK \/ NotFound(resps[i])
        IN
        /\ (\A i \in 1..Len(ids) : ok(i)) =>
              /\ out.exc = ""
              /\ out.requests = ids
              /\ out.warnings = IF reactomeCall.quiet THEN <<>> ELSE Ids404(ids, resps)
              /\ IdColumn(out.table) = ExpectedIdColumn(ids, resps)
        /\ \A i \in 1..Len(ids) :
              (/\ resps[i].status = 404
               /\ resps[i].kind \in {"no_messages", "not_json"}
               /\ \A j \in 1..(i - 1) : ok(j)) =>
                  /\ out.exc = "HttpResponseError"
                  /\ out.requests = SubSeq(ids, 1, i)

C2_Witness ==
    /\ SearchCalled
    /\ Len(reactomeCall.ids) = 2
    /\ NotFound(reactomeCall.resps[1])
    /\ reactomeCall.resps[2].status = HTTP_OK
    /\ Len(reactomeCall.resps[2].pathways) = 2
    /\ ~reactomeCall.quiet
    /\ reactomeCall.out.warnings = <<reactomeCall.ids[1]>>
    /\ Len(reactomeCall.out.table) = 2

ProteinsSearchCalled == reactomeCall.fn = "search_reactome_proteins_in_pathways"

\* the answer makes the function raise HttpResponseError
SearchRaises(fn, resp) ==
    IF fn = "search_reactome_proteins_in_pathways" THEN resp.status \notin {HTTP_OK, 404}
    ELSE \/ resp.status \notin {HTTP_OK, 404}
         \/ resp.status = 404 /\ resp.kind \in {"no_messages", "not_json"}

\* the answer makes the function skip the identifier
SearchSkips(fn, resp) ==
    IF fn = "search_reactome_proteins_in_pathways"
    THEN resp.status = 404 \/ (resp.status = HTTP_OK /\ resp.kind # "json")
    ELSE NotFound(resp)

\* the rows the answer to identifier id gives, as [id column, value column]
RowsOf(fn, id, resp) ==
    IF fn = "search_reactome_proteins_in_pathways"
    THEN {<<id, str.words[2]>> : str \in {x \in Range(resp.strings) : x.db = "UniProt"}}
    ELSE {<<id, resp.pathways[k].stId>> : k \in 1..Len(resp.pathways)}

TableRows(fn, table) ==
    IF fn = "search_reactome_proteins_in_pathways"
    THEN {<<table[k].pathway_id, table[k].member>> : k \in 1..Len(table)}
    ELSE {<<table[k].id, table[k].pathway_id>> : k \in 1..Len(table)}

\* C11 as stated: both searches take their identifiers in input order; a 404
\* (for proteins_in_pathways also an empty 200) is skipped and the loop goes
\* on; any other non-200 status raises HttpResponseError at once, with no
\* table and no later request; otherwise the table holds the rows of every
\* answered identifier and of no skipped one.
C11_SkipEvery404 ==
    (SearchCalled \/ ProteinsSearchCalled) =>
        LET ids == reactomeCall.ids
            resps == reactomeCall.resps
            out == reactomeCall.out
            bad == {i \in 1..Len(ids) : resps[i].status \notin {HTTP_OK, 404}}
            answered == {i \in 1..Len(ids) :
                            resps[i].status = HTTP_OK /\ ~SearchSkips(reactomeCall.fn, resps[i])}
        IN
        /\ bad = {} =>
              /\ out.exc = ""
              /\ out.requests = ids
              /\ TableRows(reactomeCall.fn, out.table)
                    = UNION {RowsOf(reactomeCall.fn, ids[i], resps[i]) : i \in answered}
        /\ \A i \in bad : (\A j \in bad : i <= j) =>
              /\ out.exc = "HttpResponseError"
              /\ out.table = <<>>
              /\ out.requests = SubSeq(ids, 1, i)

\* C11 amended: as stated, except that search_reactome_pathways_with_proteins
\* skips a 404 only when its body is a JSON object holding "messages"; a 404
\* whose body is not JSON or is a JSON object without "messages" raises
\* HttpResponseError at once, like any other non-200 status.
C11_InOrderSkipOrRaise ==
    (SearchCalled \/ ProteinsSearchCalled) =>
        LET ids == reactomeCall.ids
            resps == reactomeCall.resps
            out == reactomeCall.out
            fn == reactomeCall.fn
            bad == {i \in 1..Len(ids) : SearchRaises(fn, resps[i])}
            answered == {i \in 1..Len(ids) :
                            resps[i].status = HTTP_OK /\ ~SearchSkips(fn, resps[i])}
            covered(i) == SearchRaises(fn, resps[i]) \/ SearchSkips(fn, resps[i])
                            \/ i \in answered
        IN
        /\ (bad = {} /\ \A i \in 1..Len(ids) : covered(i)) =>
              /\ out.exc = ""
              /\ out.requests = ids
              /\ TableRows(fn, out.table) = UNION {RowsOf(fn, ids[i], resps[i]) : i \in answered}
        /\ \A i \in bad : ((\A j \in bad : i <= j) /\ \A j \in 1..i : covered(j)) =>
              /\ out.exc = "HttpResponseError"
              /\ out.table = <<>>
              /\ out.requests = SubSeq(ids, 1, i)

\* the first identifier is skipped on an empty 200, the second is answered,
\* and only the second has rows
C11_Witness ==
    /\ ProteinsSearchCalled
    /\ Len(reactomeCall.ids) = 2
    /\ reactomeCall.ids[1] # reactomeCall.ids[2]
    /\ reactomeCall.resps[1].status = HTTP_OK
    /\ reactomeCall.resps[1].kind = "empty_json"
    /\ reactomeCall.resps[2].kind = "json"
    /\ reactomeCall.out.requests = reactomeCall.ids
    /\ reactomeCall.out.table # <<>>
    /\ \A k \in 1..Len(reactomeCall.out.table) :
          reactomeCall.out.table[k].pathway_id = reactomeCall.ids[2]

(***************************************************************************)
(* The local lookups over changing files                                   *)
(***************************************************************************)
\* what each lookup must answer over the given file contents
BioplexAnswers(call, file) ==
    LET expected == IF call.secondary_interactions THEN TwoHops(file, call.protein)
                    ELSE Partners(file, call.protein)
    IN /\ call.out.exc = ""
       /\ IF expected = {} THEN call.out.ret.isNone
          ELSE ~call.out.ret.isNone /\ Range(call.out.ret.val) = expected

WikipathwaysAnswers(call, df) ==
    \A Q \in Proteins : Q \in Range(call.ret) <=> SharePathway(df, call.protein, Q)

ProteinPathwaysAnswers(call, df) ==
    \A L \in Pathways : L \in Range(call.ret) <=> Member(df, call.protein, L)

ListPathwaysAnswers(call, df) == call.ret = df.columns

ProteinsInPathwayAnswers(call, df) ==
    \A P \in Proteins : P \in Range(call.ret) <=> Member(df, P, call.pathway)

FilesUnchanged == bioplexFile' = bioplexFile /\ wikiFile' = wikiFile

\* C12: the local lookups keep no state and never modify the tables: in any
\* sequence of calls interleaved with changes of the files on disk, the
\* result of a call is what its arguments and the file contents at the time
\* of the call determine, and the call leaves both files as they were.
C12_FreshAndReadOnly ==
    [][ /\ (bioplexCall' # bioplexCall /\ bioplexCall'.fn # "none") =>
              FilesUnchanged /\ BioplexAnswers(bioplexCall', bioplexFile)
        /\ (wikiCall' # wikiCall /\ wikiCall'.fn # "none") =>
              FilesUnchanged /\ WikipathwaysAnswers(wikiCall', wikiFile)
        /\ (pathwaysCall' # pathwaysCall /\ pathwaysCall'.fn # "none") =>
              FilesUnchanged /\ ProteinPathwaysAnswers(pathwaysCall', wikiFile)
        /\ (listCall' # listCall /\ listCall'.fn # "none") =>
              FilesUnchanged /\ ListPathwaysAnswers(listCall', wikiFile)
        /\ (membersCall' # membersCall /\ membersCall'.fn # "none") =>
              FilesUnchanged /\ ProteinsInPathwayAnswers(membersCall', wikiFile)
      ]_vars

\* a result in the caller's hands while the file has since been replaced: it
\* is the answer over the file as it was at the call, not over the file now
C12_Witness ==
    /\ BioplexCalled
    /\ ~bioplexCall.out.ret.isNone
    /\ ~BioplexAnswers(bioplexCall, bioplexFile)
    /\ \E file \in LocalBioplexFiles : BioplexAnswers(bioplexCall, file)

StartsWithHash(name) == ~name.isNone /\ Len(name.val) >= 1 /\ name.val[1] = "#"

\* some check of the export parameters fails for the call
SomeCheckFails(call) ==
    \/ call.image_format \notin {"png", "gif", "svg", "jpg", "jpeg", "pptx"}
    \/ /\ ~call.display_col_idx.isNone
       /\ (call.display_col_idx.val < 0 \/ call.display_col_idx.val >= call.ncols)
    \/ call.diagram_colors \notin {"Modern", "Standard"}
    \/ call.overlay_colors \notin {"Standard", "Strosobar", "Copper Plus"}
    \/ call.quality < 1
    \/ call.quality > 10
    \/ ~EndsWithFormat(call.export_path.val, call.image_format)
    \/ \E rest \in SeqsUpTo({"a", ".", "png", "gif"}, 3) :
          call.export_path.val = <<"~", "/">> \o rest

C14_RenameIdempotent ==
    (OverlayCalled /\ reactomeCall.out.exc # "InvalidParameterError") =>
        /\ StartsWithHash(df_index_name)
        /\ df_index_name =
              IF reactomeCall.index_name.isNone THEN PyStr(<<"#", "identifier">>)
              ELSE IF StartsWithHash(reactomeCall.index_name) THEN reactomeCall.index_name
              ELSE PyStr(<<"#">> \o reactomeCall.index_name.val)
        /\ Len(df_index_name.val) = 1 \/ df_index_name.val[2] # "#"
        /\ rename_index(df_index_name) = df_index_name

\* a second call on a dataframe whose index an earlier call has named
C14_Witness ==
    /\ OverlayCalled
    /\ reactomeCall.out.exc = ""
    /\ reactomeCall.index_name = PyStr(<<"#", "identifier">>)
    /\ df_index_name = PyStr(<<"#", "identifier">>)

=============================================================================
